---- MODULE Spec2Model ----
(***************************************************************************)
(* Model of demo/osmd-samples/scrapper.py: a linear script that loads the  *)
(* OSMD demo page in a headless browser, reads the option values of the    *)
(* page's <select>, keeps the ones ending in ".xml" / ".mxl", removes      *)
(* duplicates and downloads each remaining URL into the "scores"           *)
(* directory.                                                              *)
(*                                                                         *)
(* Strings are sequences of one-character strings, so that str.endswith    *)
(* and str.split("/")[-1] are computed and not assumed.  The variable pc   *)
(* is the position of the interpreter in the script.  The file system and  *)
(* the answers of the network outlive one execution of the script; a       *)
(* second execution (Rerun) starts on the file system the first one left.  *)
(***************************************************************************)
EXTENDS Integers, Sequences, FiniteSets, TLC

\* ---------------------------------------------------------------- bounds
MaxOptions == 2     \* longest <option> list the page offers
MaxRuns == 2        \* number of executions of the script on one file system

\* ------------------------------------------------------------- strings
\* opt.get_attribute("value") returns None when the attribute is absent.
\* None is kept apart from every string by a token that is not a character.
None == <<"None">>

Str_h_a_xml == <<"h", "/", "a", ".", "x", "m", "l">>
Str_g_a_xml == <<"g", "/", "a", ".", "x", "m", "l">>
Str_b_mxl == <<"b", ".", "m", "x", "l">>
Str_c_pdf == <<"c", ".", "p", "d", "f">>
Str_d_XML == <<"d", ".", "X", "M", "L">>
Str_empty == <<>>

\* The values an <option> of the page may carry.
OptionValues ==
  {None, Str_empty, Str_h_a_xml, Str_g_a_xml, Str_b_mxl, Str_c_pdf, Str_d_XML}

DOWNLOAD_DIR == <<"s", "c", "o", "r", "e", "s">>

Range(s) == {s[i] : i \in 1..Len(s)}

SeqsUpTo(S, n) == UNION {[1..k -> S] : k \in 0..n}

\* str.endswith(suffix)
EndsWith(s, suffix) ==
  /\ Len(s) >= Len(suffix)
  /\ SubSeq(s, Len(s) - Len(suffix) + 1, Len(s)) = suffix

\* Python truthiness of the value read at line 33: None and "" are falsy.
Truthy(val) == val # None /\ val # <<>>

\* line 34 with the second suffix forgotten
KeepXmlOnly(val) ==
  Truthy(val) /\ EndsWith(val, <<".", "x", "m", "l">>)

\* the condition of line 34
Keep(val) ==
  Truthy(val) /\ (EndsWith(val, <<".", "x", "m", "l">>)
                  \/ EndsWith(val, <<".", "m", "x", "l">>))

\* url.split("/")[-1]: what follows the last "/", the whole string without one
LastSegment(url) ==
  LET slashes == {i \in 1..Len(url) : url[i] = "/"}
  IN  IF slashes = {} THEN url
      ELSE LET last == CHOOSE i \in slashes : \A j \in slashes : j <= i
           IN  SubSeq(url, last + 1, Len(url))

\* os.path.join(DOWNLOAD_DIR, filename) for a filename without "/"
PathJoin(dir, filename) == dir \o <<"/">> \o filename

Dest(url) == PathJoin(DOWNLOAD_DIR, LastSegment(url))

\* line 40 without the set: the list as extracted
ListAsExtracted(s) == {s}

\* list(set(urls)): the distinct elements, in an order the set type chooses
ListOfSet(s) ==
  LET S == Range(s)
  IN  {f \in [1..Cardinality(S) -> S] : \A i, j \in 1..Cardinality(S) : f[i] = f[j] => i = j}

\* ------------------------------------------------------------ contents
OldContent == <<"old">>
Body(url) == <<"body", url>>
Partial(url) == <<"partial", url>>

\* open(dest, "wb") creates or truncates dest; f.write then stores content
WriteFile(fs, path, content) ==
  [p \in (DOMAIN fs) \cup {path} |-> IF p = path THEN content ELSE fs[p]]

NoFiles == [p \in {} |-> OldContent]

\* what one request/write attempt can end in
Outcomes == {"exc", "http", "openerr", "writeerr", "ok"}

VARIABLES
  pc,          \* position in the script
  run,         \* which execution of the script this is
  dir,         \* what DOWNLOAD_DIR is on disk: "absent", "dir" or "file"
  files,       \* path -> content, for the files under DOWNLOAD_DIR
  pageOptions, \* the option values the rendered page carries
  world,       \* url -> outcome the network/disk gives it ("unknown" before)
  browser,     \* "none", "open" or "quit"
  options,     \* the list read at line 28
  i,           \* position of the loop of line 32
  urls,        \* the list urls
  idx,         \* position of the loop of line 44
  inflight,    \* urls whose GET was issued and has not returned
  requests,    \* the GETs issued by this execution, in order
  written,     \* the urls whose with-block completed, in order
  opened,      \* the paths this execution opened for writing
  stdout,      \* the lines printed by this execution
  fault,       \* the uncaught exception that ended this execution, or "none"
  prevPc,      \* how the previous execution ended ("none" in the first)
  prevNames    \* the paths that existed when the previous execution ended

vars == <<pc, run, dir, files, pageOptions, world, browser, options, i, urls,
          idx, inflight, requests, written, opened, stdout, fault, prevPc,
          prevNames>>

fsVars == <<dir, files>>
envVars == <<pageOptions, world>>
logVars == <<inflight, requests, written, opened>>
prevVars == <<prevPc, prevNames>>

Init ==
  /\ pc = "makedirs"
  /\ run = 1
  /\ \/ dir = "absent" /\ files = NoFiles
     \/ dir = "file" /\ files = NoFiles
     \/ dir = "dir" /\ files = NoFiles
     \/ dir = "dir" /\ files = WriteFile(NoFiles, Dest(Str_h_a_xml), OldContent)
  /\ pageOptions \in SeqsUpTo(OptionValues, MaxOptions)
  /\ world = [u \in {v \in OptionValues : Keep(v)} |-> "unknown"]
  /\ browser = "none"
  /\ options = <<>>
  /\ i = 1
  /\ urls = <<>>
  /\ idx = 1
  /\ inflight = {}
  /\ requests = <<>>
  /\ written = <<>>
  /\ opened = {}
  /\ stdout = <<>>
  /\ fault = "none"
  /\ prevPc = "none"
  /\ prevNames = {}

\* os.makedirs(DOWNLOAD_DIR) without exist_ok: an existing directory raises
MakedirsStrict(d) == IF d = "absent" THEN "dir" ELSE "error"

\* line 13: os.makedirs(DOWNLOAD_DIR, exist_ok=True)
MakedirsExistOk(d) == IF d = "file" THEN "error" ELSE "dir"

Makedirs ==
  /\ pc = "makedirs"
  /\ IF MakedirsExistOk(dir) = "error"
     THEN pc' = "aborted" /\ dir' = dir /\ fault' = "makedirs"
     ELSE pc' = "launch" /\ dir' = MakedirsExistOk(dir) /\ fault' = fault
  /\ UNCHANGED <<run, files, envVars, browser, options, i, urls, idx, logVars, stdout, prevVars>>

\* line 20: webdriver.Chrome(options=options)
LaunchOk ==
  /\ pc = "launch"
  /\ browser' = "open"
  /\ pc' = "navigate"
  /\ UNCHANGED <<run, fsVars, envVars, options, i, urls, idx, logVars, stdout, fault, prevVars>>

LaunchFails ==
  /\ pc = "launch"
  /\ pc' = "aborted"
  /\ fault' = "launch"
  /\ UNCHANGED <<run, fsVars, envVars, browser, options, i, urls, idx, logVars, stdout, prevVars>>

\* lines 22-24: print, driver.get(DEMO_URL), time.sleep(3)
NavigateOk ==
  /\ pc = "navigate"
  /\ stdout' = Append(stdout, <<"Loading">>)
  /\ pc' = "find"
  /\ UNCHANGED <<run, fsVars, envVars, browser, options, i, urls, idx, logVars, fault, prevVars>>

NavigateFails ==
  /\ pc = "navigate"
  /\ stdout' = Append(stdout, <<"Loading">>)
  /\ pc' = "aborted"
  /\ fault' = "navigate"
  /\ UNCHANGED <<run, fsVars, envVars, browser, options, i, urls, idx, logVars, prevVars>>

\* line 27: driver.find_element(By.TAG_NAME, "select")
FindSelectOk ==
  /\ pc = "find"
  /\ pc' = "options"
  /\ UNCHANGED <<run, fsVars, envVars, browser, options, i, urls, idx, logVars, stdout, fault, prevVars>>

\* NoSuchElementException swallowed: the script goes on without a select
FindSelectFailsIgnored ==
  /\ pc = "find"
  /\ pc' = "options"
  /\ fault' = "select"
  /\ UNCHANGED <<run, fsVars, envVars, browser, options, i, urls, idx, logVars, stdout, prevVars>>

FindSelectFails ==
  /\ pc = "find"
  /\ pc' = "aborted"
  /\ fault' = "select"
  /\ UNCHANGED <<run, fsVars, envVars, browser, options, i, urls, idx, logVars, stdout, prevVars>>

\* lines 28-31: options = select.find_elements(...); urls = []
FindOptions ==
  /\ pc = "options"
  /\ options' = pageOptions
  /\ urls' = <<>>
  /\ i' = 1
  /\ pc' = "extract"
  /\ UNCHANGED <<run, fsVars, envVars, browser, idx, logVars, stdout, fault, prevVars>>

\* lines 32-35, one iteration
ExtractOne ==
  /\ pc = "extract"
  /\ i <= Len(options)
  /\ LET val == options[i]
     IN  urls' = IF Keep(val) THEN Append(urls, val) ELSE urls
  /\ i' = i + 1
  /\ UNCHANGED <<pc, run, fsVars, envVars, browser, options, idx, logVars, stdout, fault, prevVars>>

\* line 33 raising (the element went stale, the session died)
ReadValueFails ==
  /\ pc = "extract"
  /\ i <= Len(options)
  /\ pc' = "aborted"
  /\ fault' = "value"
  /\ UNCHANGED <<run, fsVars, envVars, browser, options, i, urls, idx, logVars, stdout, prevVars>>

\* line 37 forgotten: the browser stays open during the downloads
QuitForgotten ==
  /\ pc = "extract"
  /\ i > Len(options)
  /\ pc' = "dedupe"
  /\ UNCHANGED <<run, fsVars, envVars, browser, options, i, urls, idx, logVars, stdout, fault, prevVars>>

\* line 37: driver.quit(), reached when the loop of line 32 is exhausted
Quit ==
  /\ pc = "extract"
  /\ i > Len(options)
  /\ browser' = "quit"
  /\ pc' = "dedupe"
  /\ UNCHANGED <<run, fsVars, envVars, options, i, urls, idx, logVars, stdout, fault, prevVars>>

\* lines 40-41: urls = list(set(urls)); print(f"Found {len(urls)} score URLs.")
Dedupe ==
  /\ pc = "dedupe"
  /\ \E l \in ListOfSet(urls) :
       /\ urls' = l
       /\ stdout' = Append(stdout, <<"Found", Len(l)>>)
  /\ idx' = 1
  /\ pc' = "loop"
  /\ UNCHANGED <<run, fsVars, envVars, browser, options, i, logVars, fault, prevVars>>

\* lines 44-48: next url of the loop, filename, dest, requests.get(url) sent
IssueGet ==
  /\ pc = "loop"
  /\ idx <= Len(urls)
  /\ requests' = Append(requests, urls[idx])
  /\ inflight' = inflight \cup {urls[idx]}
  /\ pc' = "resp"
  /\ UNCHANGED <<run, fsVars, envVars, browser, options, i, urls, idx, written, opened, stdout, fault, prevVars>>

\* no try/except around lines 48-51: the exception ends the script
ExceptUncaught(url, e) ==
  /\ stdout' = stdout
  /\ idx' = idx
  /\ pc' = "aborted"

\* "except Exception: pass": the failure is skipped and not reported
ExceptSilent(url, e) ==
  /\ stdout' = stdout
  /\ idx' = idx + 1
  /\ pc' = "loop"

\* line 53 followed by the next iteration
Except(url, e) ==
  /\ stdout' = Append(stdout, <<"FAILED", url, e>>)
  /\ idx' = idx + 1
  /\ pc' = "loop"

\* the outcome o is what the world gives url; it gives the same on a re-run
Gives(url, o) ==
  /\ world[url] \in {"unknown", o}
  /\ world' = [world EXCEPT ![url] = o]

\* line 48 raises (connection error, timeout, invalid URL)
GetRaises ==
  /\ pc = "resp"
  /\ LET url == urls[idx]
     IN  /\ Gives(url, "exc")
         /\ inflight' = inflight \ {url}
         /\ Except(url, "exc")
  /\ UNCHANGED <<run, fsVars, pageOptions, browser, options, i, urls, requests, written, opened, fault, prevVars>>

\* line 49 forgotten: the body of the error response is written to dest
HttpErrorIgnored ==
  /\ pc = "resp"
  /\ LET url == urls[idx]
     IN  /\ Gives(url, "http")
         /\ inflight' = inflight \ {url}
         /\ files' = WriteFile(files, Dest(url), Body(url))
         /\ opened' = opened \cup {Dest(url)}
         /\ written' = Append(written, url)
  /\ idx' = idx + 1
  /\ pc' = "loop"
  /\ UNCHANGED <<run, dir, pageOptions, browser, options, i, urls, requests, stdout, fault, prevVars>>

\* line 49: r.raise_for_status() on a 4xx/5xx response
HttpError ==
  /\ pc = "resp"
  /\ LET url == urls[idx]
     IN  /\ Gives(url, "http")
         /\ inflight' = inflight \ {url}
         /\ Except(url, "http")
  /\ UNCHANGED <<run, fsVars, pageOptions, browser, options, i, urls, requests, written, opened, fault, prevVars>>

\* line 50 raises: dest cannot be opened for writing
OpenFails ==
  /\ pc = "resp"
  /\ LET url == urls[idx]
     IN  /\ Gives(url, "openerr")
         /\ inflight' = inflight \ {url}
         /\ Except(url, "openerr")
  /\ UNCHANGED <<run, fsVars, pageOptions, browser, options, i, urls, requests, written, opened, fault, prevVars>>

\* line 50 creates/truncates dest, line 51 (or the close) raises
WriteFails ==
  /\ pc = "resp"
  /\ LET url == urls[idx]
     IN  /\ Gives(url, "writeerr")
         /\ inflight' = inflight \ {url}
         /\ files' = WriteFile(files, Dest(url), Partial(url))
         /\ opened' = opened \cup {Dest(url)}
         /\ Except(url, "writeerr")
  /\ UNCHANGED <<run, dir, pageOptions, browser, options, i, urls, requests, written, fault, prevVars>>

\* "finally" in place of "except": the failure line is printed on success too
WriteOkAlsoReported ==
  /\ pc = "resp"
  /\ LET url == urls[idx]
     IN  /\ Gives(url, "ok")
         /\ inflight' = inflight \ {url}
         /\ files' = WriteFile(files, Dest(url), Body(url))
         /\ opened' = opened \cup {Dest(url)}
         /\ written' = Append(written, url)
         /\ stdout' = Append(stdout, <<"FAILED", url, "ok">>)
  /\ idx' = idx + 1
  /\ pc' = "loop"
  /\ UNCHANGED <<run, dir, pageOptions, browser, options, i, urls, requests, fault, prevVars>>

\* lines 48-51 all succeed
WriteOk ==
  /\ pc = "resp"
  /\ LET url == urls[idx]
     IN  /\ Gives(url, "ok")
         /\ inflight' = inflight \ {url}
         /\ files' = WriteFile(files, Dest(url), Body(url))
         /\ opened' = opened \cup {Dest(url)}
         /\ written' = Append(written, url)
  /\ idx' = idx + 1
  /\ pc' = "loop"
  /\ UNCHANGED <<run, dir, pageOptions, browser, options, i, urls, requests, stdout, fault, prevVars>>

\* line 55: print("Done!"), reached when the loop of line 44 is exhausted
Finish ==
  /\ pc = "loop"
  /\ idx > Len(urls)
  /\ stdout' = Append(stdout, <<"Done">>)
  /\ pc' = "done"
  /\ UNCHANGED <<run, fsVars, envVars, browser, options, i, urls, idx, logVars, fault, prevVars>>

\* the script is executed again: a new process on the same disk and network
Rerun ==
  /\ pc \in {"done", "aborted"}
  /\ run < MaxRuns
  /\ run' = run + 1
  /\ pc' = "makedirs"
  /\ browser' = "none"
  /\ options' = <<>>
  /\ i' = 1
  /\ urls' = <<>>
  /\ idx' = 1
  /\ inflight' = {}
  /\ requests' = <<>>
  /\ written' = <<>>
  /\ opened' = {}
  /\ stdout' = <<>>
  /\ fault' = "none"
  /\ prevPc' = pc
  /\ prevNames' = DOMAIN files
  /\ UNCHANGED <<fsVars, envVars>>

Next ==
  \/ Makedirs
  \/ LaunchOk
  \/ LaunchFails
  \/ NavigateOk
  \/ NavigateFails
  \/ FindSelectOk
  \/ FindSelectFails
  \/ FindOptions
  \/ ExtractOne
  \/ ReadValueFails
  \/ Quit
  \/ Dedupe
  \/ IssueGet
  \/ GetRaises
  \/ HttpError
  \/ OpenFails
  \/ WriteFails
  \/ WriteOk
  \/ Finish
  \/ Rerun

Spec == Init /\ [][Next]_vars

\* -------------------------------------------------- what a run shows
FetchStage == pc \in {"loop", "resp", "done"}
Terminated == pc \in {"done", "aborted"}
HasLine(tag) == \E k \in 1..Len(stdout) : stdout[k][1] = tag
FailedLines == SelectSeq(stdout, LAMBDA l : l[1] = "FAILED")
FailedLinesOf(u) == SelectSeq(stdout, LAMBDA l : l[1] = "FAILED" /\ l[2] = u)
Count(s, x) == Cardinality({k \in 1..Len(s) : s[k] = x})
NoDuplicates(s) == \A j, k \in 1..Len(s) : s[j] = s[k] => j = k

\* the lifecycle of a reference, read off the files written and lines printed
Status(u) ==
  IF Count(written, u) > 0
  THEN (IF Len(FailedLinesOf(u)) > 0 THEN "both" ELSE "written")
  ELSE (IF Len(FailedLinesOf(u)) > 0 THEN "failed" ELSE "pending")

\* the references handled so far by the loop of line 44
Processed == SubSeq(urls, 1, idx - 1)

\* ---------------------------------------------------------------- C1
\* C1: a fetch is attempted for every reference of the Reference Set,
\* whatever the outcomes of the references before it: the GETs issued are the
\* references up to the loop position, in order, and a run that printed the
\* count of references ends only with a GET issued for each of them.
C1_FaultIsolation ==
  /\ FetchStage =>
       requests = SubSeq(urls, 1, IF pc = "resp" THEN idx ELSE idx - 1)
  /\ (Terminated /\ HasLine("Found")) => Range(requests) = Range(urls)

\* a failed reference followed by a successful one, in one run
C1_Witness ==
  /\ pc = "done"
  /\ Len(urls) >= 2
  /\ world[urls[1]] # "ok"
  /\ world[urls[2]] = "ok"
  /\ Count(written, urls[2]) = 1

\* ---------------------------------------------------------------- C2
\* C2: no terminal state of the program has a launched browser that was never
\* quit.  The script has no try/finally around lines 23-35.
C2_BrowserReleased ==
  (Terminated /\ browser # "none") => browser = "quit"

\* ---------------------------------------------------------------- C3
\* C3: once the options are read, a value is in the Reference Set if and only
\* if it is one of the option values, is present and non-empty, and its last
\* four characters are exactly ".xml" or ".mxl".
C3_Last4(v) == <<v[Len(v) - 3], v[Len(v) - 2], v[Len(v) - 1], v[Len(v)]>>

C3_SuffixFilter ==
  /\ pc = "extract" =>
       \A v \in OptionValues :
         v \in Range(urls) <=>
           /\ v \in Range(SubSeq(options, 1, i - 1))
           /\ v # None
           /\ Len(v) >= 4
           /\ C3_Last4(v) \in {<<".", "x", "m", "l">>, <<".", "m", "x", "l">>}
  /\ pc \in {"dedupe", "loop", "resp", "done"} =>
       \A v \in OptionValues :
         v \in Range(urls) <=>
           /\ v \in Range(pageOptions)
           /\ v # None
           /\ Len(v) >= 4
           /\ C3_Last4(v) \in {<<".", "x", "m", "l">>, <<".", "m", "x", "l">>}
  /\ Str_c_pdf \notin Range(urls)
  /\ Str_d_XML \notin Range(urls)
  /\ Str_empty \notin Range(urls)
  /\ None \notin Range(urls)

\* a page offering ".mxl" and ".XML", after the filter
C3_Witness ==
  /\ pc = "dedupe"
  /\ Str_d_XML \in Range(options)
  /\ urls = <<Str_b_mxl>>

\* ---------------------------------------------------------------- C4
\* C4: the list handed to the fetch stage has no two equal URLs, no URL is
\* requested twice in a run, and the count printed at line 41 is the number
\* of distinct qualifying option values.
C4_Deduplicated ==
  FetchStage =>
    /\ NoDuplicates(urls)
    /\ NoDuplicates(requests)
    /\ \E k \in 1..Len(stdout) :
         stdout[k] = <<"Found", Cardinality({v \in Range(pageOptions) : Keep(v)})>>

\* a value offered twice is fetched once
C4_Witness ==
  /\ pc = "done"
  /\ \E j, k \in 1..Len(options) : j # k /\ options[j] = options[k] /\ Keep(options[j])
  /\ Len(requests) = 1

\* ---------------------------------------------------------------- C5
\* N references, K of them failing
C5_N == Len(urls)
C5_K == Cardinality({u \in Range(urls) : world[u] # "ok"})
\* the files of the output directory that this run completed a write to
C5_FilesWritten == {Dest(u) : u \in Range(written)}

\* C5 as stated: a completed run printed exactly K failure lines and wrote
\* exactly N-K files under the output directory.
C5_Original ==
  pc = "done" =>
    /\ Len(FailedLines) = C5_K
    /\ Cardinality(C5_FilesWritten) = C5_N - C5_K

\* C5 amended: a completed run printed exactly K failure lines and completed
\* exactly N-K writes, one per succeeding reference, each to the file named by
\* the reference's final path segment, so that the files so written are as
\* many as the distinct final path segments of the succeeding references, at
\* most N-K; a run that reached the fetch stage ends at "Done!"; with an empty
\* option list no request is issued and no failure is reported.
C5_Tally ==
  /\ pc = "done" =>
       /\ Len(FailedLines) = C5_K
       /\ Len(written) = C5_N - C5_K
       /\ NoDuplicates(written)
       /\ Range(written) = {u \in Range(urls) : world[u] = "ok"}
       /\ {Dest(u) : u \in Range(written)} \subseteq opened
       /\ opened \subseteq DOMAIN files
       /\ C5_FilesWritten \subseteq DOMAIN files
       /\ Cardinality(C5_FilesWritten) =
            Cardinality({LastSegment(u) : u \in {v \in Range(urls) : world[v] = "ok"}})
       /\ Cardinality(C5_FilesWritten) <= C5_N - C5_K
       /\ stdout[Len(stdout)] = <<"Done">>
  /\ (Terminated /\ HasLine("Found")) => pc = "done"
  /\ pageOptions = <<>> => requests = <<>> /\ FailedLines = <<>>

\* a completed run of two references with one final path segment, both
\* succeeding: two successful writes, one file
C5_Witness ==
  /\ pc = "done"
  /\ C5_N = 2
  /\ C5_K = 0
  /\ Len(written) = 2
  /\ Dest(written[1]) = Dest(written[2])
  /\ Cardinality(opened) = 1

\* ---------------------------------------------------------------- C6
\* C6: in the fetch stage every reference before the loop position is either
\* written or failed (never both), every reference from the loop position on
\* is pending, each was requested exactly once, and none is pending at the
\* end; a reference leaves "pending" in one step, for good, and when it
\* becomes written its destination file holds its full response body.
C6_StateOk ==
  FetchStage =>
    /\ \A k \in 1..Len(urls) :
         /\ k < idx => /\ Status(urls[k]) \in {"written", "failed"}
                       /\ Count(requests, urls[k]) = 1
                       /\ Count(written, urls[k]) + Len(FailedLinesOf(urls[k])) = 1
         /\ k >= idx => Status(urls[k]) = "pending"
         /\ Count(requests, urls[k]) <= 1
    /\ pc = "done" => \A u \in Range(urls) : Status(u) # "pending"

C6_StepOk ==
  (FetchStage /\ run' = run) =>
    \A u \in Range(urls) :
      /\ Status(u) # "pending" => Status(u)' = Status(u)
      /\ (Status(u) = "pending" /\ Status(u)' # "pending") =>
           /\ pc = "resp" /\ u = urls[idx]
           /\ Status(u)' \in {"written", "failed"}
           /\ Status(u)' = "written" => files'[Dest(u)] = Body(u)
           /\ Status(u)' = "failed" => stdout' = Append(stdout, <<"FAILED", u, world'[u]>>)

C6_Lifecycle == []C6_StateOk /\ [][C6_StepOk]_vars

\* a run that ended with one reference written and another failed
C6_Witness ==
  /\ pc = "done"
  /\ \E u, v \in Range(urls) : Status(u) = "written" /\ Status(v) = "failed"

\* ---------------------------------------------------------------- C7
\* C7: a GET is issued only when the browser has been quit and no other GET
\* is outstanding; at any time at most one GET is outstanding and none while
\* the browser is open.
C7_StateOk ==
  /\ Cardinality(inflight) <= 1
  /\ inflight # {} => browser = "quit"
  /\ requests # <<>> => browser = "quit"

C7_StepOk ==
  (requests' # requests /\ run' = run) => inflight = {} /\ browser = "quit"

C7_StageOrdering == []C7_StateOk /\ [][C7_StepOk]_vars

\* the second GET of a run is outstanding
C7_Witness ==
  /\ pc = "resp"
  /\ Len(requests) = 2
  /\ inflight = {urls[2]}

\* ---------------------------------------------------------------- C8
\* C8: a run in which the browser launch or the search for the select raised
\* is aborted; an aborted run printed no count and no "Done!", issued no GET
\* and opened no file, and stays aborted; fetch-stage steps never abort.
C8_StateOk ==
  /\ fault \in {"launch", "select"} => pc = "aborted"
  /\ pc = "aborted" =>
       /\ fault # "none"
       /\ ~HasLine("Found")
       /\ ~HasLine("Done")
       /\ requests = <<>>
       /\ written = <<>>
       /\ opened = {}

C8_StepOk ==
  /\ (pc = "aborted" /\ run' = run) => pc' = "aborted" /\ files' = files
  /\ pc \in {"loop", "resp"} => pc' # "aborted"

C8_FatalExtraction == []C8_StateOk /\ [][C8_StepOk]_vars

\* the select was not found on the loaded page
C8_Witness ==
  /\ pc = "aborted"
  /\ fault = "select"
  /\ stdout = <<<<"Loading">>>>

\* ---------------------------------------------------------------- C9
\* C9: on a directory that exists, makedirs raises nothing and changes no
\* file; a successful write makes the destination hold the response body
\* whether or not it existed; and a run that completes after a completed run
\* leaves the paths the earlier run left.
C9_StateOk ==
  (pc = "done" /\ prevPc = "done") => DOMAIN files = prevNames

C9_StepOk ==
  /\ (pc = "makedirs" /\ dir = "dir") =>
       pc' = "launch" /\ dir' = "dir" /\ files' = files
  /\ (pc = "resp" /\ run' = run /\ world'[urls[idx]] = "ok") =>
       /\ files'[Dest(urls[idx])] = Body(urls[idx])
       /\ DOMAIN files' = DOMAIN files \cup {Dest(urls[idx])}
       /\ \A q \in DOMAIN files : q # Dest(urls[idx]) => files'[q] = files[q]
       /\ pc' = "loop"

C9_Idempotent == []C9_StateOk /\ [][C9_StepOk]_vars

\* the second run completed and overwrote a file written by the first
C9_Witness ==
  /\ run = 2
  /\ pc = "done"
  /\ prevPc = "done"
  /\ written # <<>>
  /\ \A u \in Range(written) : Dest(u) \in prevNames

\* --------------------------------------------------------------- C10
\* C10: the step that handles a request exception or a non-success status
\* prints one failure line naming the reference and the reason, leaves every
\* file as it was, and moves to the next reference; a completed run printed
\* exactly one failure line for each such reference and wrote nothing for it.
C10_StateOk ==
  pc = "done" =>
    \A u \in Range(urls) :
      world[u] \in {"exc", "http"} =>
        /\ Len(FailedLinesOf(u)) = 1
        /\ Count(written, u) = 0

C10_StepOk ==
  (pc = "resp" /\ world'[urls[idx]] \in {"exc", "http"}) =>
    /\ files' = files
    /\ opened' = opened
    /\ written' = written
    /\ stdout' = Append(stdout, <<"FAILED", urls[idx], world'[urls[idx]]>>)
    /\ pc' = "loop"
    /\ idx' = idx + 1

C10_FailedFetchNoFile == []C10_StateOk /\ [][C10_StepOk]_vars

\* an HTTP error was reported, its file does not exist, the loop goes on
C10_Witness ==
  /\ pc = "resp"
  /\ idx = 2
  /\ world[urls[1]] = "http"
  /\ Len(FailedLinesOf(urls[1])) = 1
  /\ Dest(urls[1]) \notin DOMAIN files

TypeOK ==
  /\ pc \in {"makedirs", "launch", "navigate", "find", "options", "extract",
             "dedupe", "loop", "resp", "done", "aborted"}
  /\ run \in 1..MaxRuns
  /\ dir \in {"absent", "dir", "file"}
  /\ browser \in {"none", "open", "quit"}
  /\ idx \in 1..(Len(urls) + 1)
  /\ i \in 1..(Len(options) + 1)
====
